---- MODULE Spec2Model ----
\* Model of assets/js/highlight-init.js: the client-side pass that strips
\* Rouge spans from code blocks, propagates the language class from the
\* wrapper or the parent to the <code> element and calls
\* hljs.highlightElement on every block.
EXTENDS Integers, Sequences, FiniteSets, TLC

\* ---------------------------------------------------------------- bounds
\* Largest number of top-level figures (wrapper/pre/code groups) in a page.
MaxFigs == 3
\* Number of times the script is run on the same page.
MaxPasses == 2

\* ---------------------------------------------------------------- class tokens
\* A class token is a sequence of atoms, so that startsWith is a real prefix
\* test: "language-js" is <<"language", "-", "js">>.
LangPrefix == <<"language", "-">>
MarkerClass == <<"highlighter", "-", "rouge">>
LangJs == <<"language", "-", "js">>
LangGo == <<"language", "-", "go">>
LangPy == <<"language", "-", "python">>
NearMiss == <<"language">>
OtherClass == <<"highlight">>

\* String.prototype.startsWith
StartsWith(tok, prefix) ==
    /\ Len(tok) >= Len(prefix)
    /\ SubSeq(tok, 1, Len(prefix)) = prefix

IsLang(tok) == StartsWith(tok, LangPrefix)

\* The value find() gives when no element matches (undefined, falsy).
Undefined == <<>>

\* ---------------------------------------------------------------- DOM
\* A document is a function from node ids to element records. Node 1 is the
\* body. parent = 0 is a null parentElement. The content of an element is a
\* sequence of items: a character of text (el = 0) or a child element.
Body == 1
Ch(c) == [el |-> 0, ch |-> c]
El(n) == [el |-> n, ch |-> ""]
NoNode == [tag |-> "none", parent |-> 0, classList |-> <<>>, content |-> <<>>]

RECURSIVE Concat(_)
Concat(ss) == IF ss = <<>> THEN <<>> ELSE Head(ss) \o Concat(Tail(ss))

\* Elements of the subtree of n, n first, in document order.
RECURSIVE Preorder(_, _)
Preorder(d, n) ==
    <<n>> \o Concat([i \in 1..Len(d[n].content) |->
                        IF d[n].content[i].el = 0 THEN <<>>
                        ELSE Preorder(d, d[n].content[i].el)])

Range(s) == {s[i] : i \in 1..Len(s)}

\* Element descendants of n (n excluded).
Descendants(d, n) == Range(Preorder(d, n)) \ {n}

\* Node.textContent (getter): the text of all descendants, in document order.
RECURSIVE TextContent(_, _)
TextContent(d, n) ==
    Concat([i \in 1..Len(d[n].content) |->
               IF d[n].content[i].el = 0 THEN <<d[n].content[i].ch>>
               ELSE TextContent(d, d[n].content[i].el)])

\* Element children of n.
ChildElements(d, n) ==
    {d[n].content[i].el : i \in 1..Len(d[n].content)} \ {0}

\* Node.textContent (setter) as a mutant: keeps only the text that is a
\* direct child of the element, dropping the text inside nested elements.
SetTextContentOwnTextOnly(d, n, s) ==
    [m \in DOMAIN d |->
        IF m = n
        THEN [d[m] EXCEPT !.content =
                 Concat([i \in 1..Len(d[n].content) |->
                            IF d[n].content[i].el = 0
                            THEN <<d[n].content[i]>> ELSE <<>>])]
        ELSE IF m \in ChildElements(d, n) THEN [d[m] EXCEPT !.parent = 0]
        ELSE d[m]]

\* Node.textContent (setter): every child is removed from n (its subtree
\* stays intact but is no longer in n) and n holds the string s as text.
SetTextContent(d, n, s) ==
    [m \in DOMAIN d |->
        IF m = n
        THEN [d[m] EXCEPT !.content = [i \in 1..Len(s) |-> Ch(s[i])]]
        ELSE IF m \in ChildElements(d, n) THEN [d[m] EXCEPT !.parent = 0]
        ELSE d[m]]

\* Proper ancestors of n, by parentElement.
RECURSIVE Ancestors(_, _)
Ancestors(d, n) ==
    IF d[n].parent = 0 THEN {}
    ELSE {d[n].parent} \cup Ancestors(d, d[n].parent)

\* Element.closest(".highlighter-rouge"): n itself or its nearest ancestor
\* carrying the class; 0 (null) when there is none.
RECURSIVE Closest(_, _, _)
Closest(d, n, cls) ==
    IF cls \in Range(d[n].classList) THEN n
    ELSE IF d[n].parent = 0 THEN 0
    ELSE Closest(d, d[n].parent, cls)

\* querySelector as a mutant: only the children are looked at (> span).
HasChildSpan(d, n) == \E m \in ChildElements(d, n) : d[m].tag = "span"

\* code.querySelector("span") is not null
HasSpan(d, n) == \E m \in Descendants(d, n) : d[m].tag = "span"

\* document.querySelectorAll("pre code"): the code elements of the document
\* that have a pre ancestor, in document order (a static list).
SelectFrom(d, s) ==
    LET F[i \in 0..Len(s)] ==
            IF i = 0 THEN <<>>
            ELSE IF /\ d[s[i]].tag = "code"
                    /\ \E a \in Ancestors(d, s[i]) : d[a].tag = "pre"
                 THEN Append(F[i - 1], s[i])
                 ELSE F[i - 1]
    IN  F[Len(s)]

\* querySelectorAll as a mutant: querySelector, the first match only.
QuerySelectorFirst(d) ==
    LET all == SelectFrom(d, Preorder(d, Body))
    IN  IF all = <<>> THEN <<>> ELSE <<Head(all)>>

QuerySelectorAll(d) == SelectFrom(d, Preorder(d, Body))

\* Array.from(classList).find(cls => cls.startsWith("language-"))
RECURSIVE FindLang(_)
FindLang(cl) ==
    IF cl = <<>> THEN Undefined
    ELSE IF IsLang(Head(cl)) THEN Head(cl)
    ELSE FindLang(Tail(cl))

\* classList.contains
Contains(cl, tok) == tok \in Range(cl)

\* classList.add: an ordered set, the token goes last unless present.
ClassListAdd(cl, tok) == IF Contains(cl, tok) THEN cl ELSE Append(cl, tok)

\* ---------------------------------------------------------------- pages
\* The pages the script is run on. A page is a list of figures; a figure is
\* an optional outer div, an optional wrapper div, a pre, a code and up to
\* two elements x and y inside the code, laid out by its kind.
FigSlots == <<"outer", "wrap", "pre", "code", "x", "y">>
FigSize == Len(FigSlots)

\* Content layouts of a code element. In a template "X" and "Y" stand for
\* the elements x and y, any other string is one character of text.
Kinds == {
    [name |-> "plain",     code |-> <<"a", "b">>,      xTag |-> "none", x |-> <<>>,              yTag |-> "none", y |-> <<>>],
    [name |-> "empty",     code |-> <<>>,              xTag |-> "none", x |-> <<>>,              yTag |-> "none", y |-> <<>>],
    [name |-> "span",      code |-> <<"a", "X", "c">>, xTag |-> "span", x |-> <<"b">>,           yTag |-> "none", y |-> <<>>],
    [name |-> "spans",     code |-> <<"X", "b", "Y">>, xTag |-> "span", x |-> <<"a">>,           yTag |-> "span", y |-> <<"c">>],
    [name |-> "deep",      code |-> <<"X", "d">>,      xTag |-> "span", x |-> <<"a", "Y", "c">>, yTag |-> "span", y |-> <<"b">>],
    [name |-> "hollow",    code |-> <<"X">>,           xTag |-> "span", x |-> <<>>,              yTag |-> "none", y |-> <<>>],
    [name |-> "em",        code |-> <<"a", "X">>,      xTag |-> "em",   x |-> <<"b">>,           yTag |-> "none", y |-> <<>>],
    [name |-> "emspan",    code |-> <<"X", "c">>,      xTag |-> "em",   x |-> <<"a", "Y">>,      yTag |-> "span", y |-> <<"b">>],
    [name |-> "codesib",   code |-> <<"X", "Y">>,      xTag |-> "span", x |-> <<"a">>,           yTag |-> "code", y |-> <<"b">>],
    [name |-> "codeinspan", code |-> <<"X", "c">>,     xTag |-> "span", x |-> <<"a", "Y">>,      yTag |-> "code", y |-> <<"b">>],
    [name |-> "codespan",  code |-> <<"a", "X">>,      xTag |-> "code", x |-> <<"b", "Y">>,      yTag |-> "span", y |-> <<"c">>],
    [name |-> "codecode",  code |-> <<"a", "X">>,      xTag |-> "code", x |-> <<"b">>,           yTag |-> "none", y |-> <<>>] }

KindNamed(k) == CHOOSE r \in Kinds : r.name = k

Absent == [present |-> FALSE, cls |-> <<>>]
Present(cl) == [present |-> TRUE, cls |-> cl]

OuterOpts == {Absent, Present(<<MarkerClass, LangGo>>)}
WrapOpts == {Absent, Present(<<LangJs, MarkerClass>>), Present(<<MarkerClass>>),
             Present(<<MarkerClass, LangGo, LangJs>>), Present(<<LangJs>>)}
PreOpts == {<<>>, <<LangGo>>, <<MarkerClass, LangPy>>, <<OtherClass, NearMiss>>}
CodeOpts == {<<>>, <<LangJs>>, <<LangGo>>, <<MarkerClass>>}

Fig(o, w, p, c, k) == [outer |-> o, wrap |-> w, pre |-> p, code |-> c, kind |-> k]

\* Every figure of the bounded family; pages of one figure range over it.
AllFigs == {Fig(o, w, p, c, k) : o \in OuterOpts, w \in WrapOpts, p \in PreOpts,
                                  c \in CodeOpts, k \in Kinds}

\* The figures pages of several figures are made of.
PlainFig == Fig(Absent, Absent, <<>>, <<>>, KindNamed("plain"))
JsFig == Fig(Absent, Present(<<LangJs, MarkerClass>>), <<>>, <<>>, KindNamed("plain"))
GoSpanFig == Fig(Absent, Present(<<LangGo, MarkerClass>>), <<>>, <<>>, KindNamed("span"))
NestedFig == Fig(Absent, Present(<<MarkerClass, LangGo>>), <<>>, <<LangGo>>, KindNamed("codesib"))
PaletteFigs == {PlainFig, JsFig, GoSpanFig, NestedFig}

\* Node ids of the slots of the i-th figure.
SlotNode(i, slot) ==
    LET k == CHOOSE j \in 1..FigSize : FigSlots[j] = slot
    IN  Body + (i - 1) * FigSize + k

\* The slot holding "X" (resp. "Y") in its template is the parent of x (y).
Holder(f, mark) ==
    IF mark \in Range(f.kind.code) THEN "code"
    ELSE IF mark \in Range(f.kind.x) THEN "x"
    ELSE IF mark \in Range(f.kind.y) THEN "y"
    ELSE "none"

Items(i, tpl) ==
    [j \in 1..Len(tpl) |->
        IF tpl[j] = "X" THEN El(SlotNode(i, "x"))
        ELSE IF tpl[j] = "Y" THEN El(SlotNode(i, "y"))
        ELSE Ch(tpl[j])]

\* The topmost element of figure f.
TopSlot(f) == IF f.outer.present THEN "outer"
              ELSE IF f.wrap.present THEN "wrap" ELSE "pre"

FigNode(f, i, slot) ==
    LET above(s) == IF s = "outer" THEN Body ELSE SlotNode(i, s)
    IN
    CASE slot = "outer" ->
           IF f.outer.present
           THEN [tag |-> "div", parent |-> Body, classList |-> f.outer.cls,
                 content |-> <<El(SlotNode(i, IF f.wrap.present THEN "wrap" ELSE "pre"))>>]
           ELSE NoNode
      [] slot = "wrap" ->
           IF f.wrap.present
           THEN [tag |-> "div",
                 parent |-> IF f.outer.present THEN SlotNode(i, "outer") ELSE Body,
                 classList |-> f.wrap.cls,
                 content |-> <<El(SlotNode(i, "pre"))>>]
           ELSE NoNode
      [] slot = "pre" ->
           [tag |-> "pre",
            parent |-> IF f.wrap.present THEN SlotNode(i, "wrap")
                       ELSE IF f.outer.present THEN SlotNode(i, "outer") ELSE Body,
            classList |-> f.pre,
            content |-> <<El(SlotNode(i, "code"))>>]
      [] slot = "code" ->
           [tag |-> "code", parent |-> SlotNode(i, "pre"), classList |-> f.code,
            content |-> Items(i, f.kind.code)]
      [] slot = "x" ->
           IF f.kind.xTag = "none" THEN NoNode
           ELSE [tag |-> f.kind.xTag, parent |-> SlotNode(i, Holder(f, "X")),
                 classList |-> <<>>, content |-> Items(i, f.kind.x)]
      [] slot = "y" ->
           IF f.kind.yTag = "none" THEN NoNode
           ELSE [tag |-> f.kind.yTag, parent |-> SlotNode(i, Holder(f, "Y")),
                 classList |-> <<>>, content |-> Items(i, f.kind.y)]

\* The document of the page made of the figures figs, in that order.
MkDoc(figs) ==
    [n \in 1..(Body + Len(figs) * FigSize) |->
        IF n = Body
        THEN [tag |-> "body", parent |-> 0, classList |-> <<>>,
              content |-> [i \in 1..Len(figs) |-> El(SlotNode(i, TopSlot(figs[i])))]]
        ELSE LET i == ((n - Body - 1) \div FigSize) + 1
                 k == ((n - Body - 1) % FigSize) + 1
             IN  FigNode(figs[i], i, FigSlots[k])]

Pages == {<<f>> : f \in AllFigs}
         \cup UNION {[1..n -> PaletteFigs] : n \in 2..MaxFigs}

\* window.hljs at the time the script runs: not loaded; the library; or a
\* truthy value whose highlightElement call raises (no such function, or a
\* function that throws).
EngineKinds == {"undefined", "library", "raising"}

\* ---------------------------------------------------------------- state
VARIABLES
    dom,    \* the document
    hljs,   \* window.hljs
    pc,     \* position of the script: idle, block, resolve, highlight, done, threw
    list,   \* the NodeList querySelectorAll returned
    idx,    \* index of the forEach callback in list
    pass,   \* number of runs of the script started so far
    log,    \* what the script did: records [pass, op, node]
    dom0,   \* the document before the first run
    domAt   \* the document when the current run started

vars == <<dom, hljs, pc, list, idx, pass, log, dom0, domAt>>

Init ==
    /\ \E figs \in Pages : dom = MkDoc(figs)
    /\ hljs \in EngineKinds
    /\ pc = "idle"
    /\ list = <<>>
    /\ idx = 0
    /\ pass = 0
    /\ log = <<>>
    /\ dom0 = dom
    /\ domAt = dom

\* The element the callback is running on.
cur == list[idx]

Event(op, n) == [pass |-> pass, op |-> op, node |-> n]

\* The script is not running (not started, returned, or ended by an exception).
AtRest == pc \in {"idle", "done", "threw"}

\* line 2 as a mutant: the check of window.hljs is missing.
EngineAssumedPresent == TRUE

\* line 2: window.hljs is truthy
EnginePresent == hljs # "undefined"

\* forEach goes to the element after index i, or ends.
After(i) == IF i < Len(list) THEN "block" ELSE "done"

\* line 2: if (!window.hljs) return;
ReturnNoEngine ==
    /\ AtRest
    /\ pass < MaxPasses
    /\ ~EnginePresent
    /\ pass' = pass + 1
    /\ pc' = "done"
    /\ list' = <<>>
    /\ idx' = 0
    /\ domAt' = dom
    /\ UNCHANGED <<dom, hljs, log, dom0>>

\* line 4: document.querySelectorAll("pre code").forEach(...)
Enumerate ==
    /\ AtRest
    /\ pass < MaxPasses
    /\ EnginePresent
    /\ pass' = pass + 1
    /\ list' = QuerySelectorAll(dom)
    /\ idx' = 1
    /\ pc' = IF Len(list') = 0 THEN "done" ELSE "block"
    /\ domAt' = dom
    /\ UNCHANGED <<dom, hljs, log, dom0>>

\* lines 5-6: const pre = code.parentElement; if (!pre) return;
SkipBlock ==
    /\ pc = "block"
    /\ dom[cur].parent = 0
    /\ log' = Append(log, Event("skip", cur))
    /\ idx' = idx + 1
    /\ pc' = After(idx)
    /\ UNCHANGED <<dom, hljs, list, pass, dom0, domAt>>

\* line 9 as a mutant: any nested element triggers the stripping.
HasAnyElement(d, n) == Descendants(d, n) # {}

\* line 9: code.querySelector("span")
NeedsStrip(d, n) == HasSpan(d, n)

\* lines 9-11: the content of the block after the stripping step.
StripBlock(d, n) ==
    IF NeedsStrip(d, n) THEN SetTextContent(d, n, TextContent(d, n)) ELSE d

\* lines 5-11: the parent is there; strip the Rouge spans.
Strip ==
    /\ pc = "block"
    /\ dom[cur].parent # 0
    /\ dom' = StripBlock(dom, cur)
    /\ log' = IF NeedsStrip(dom, cur) THEN Append(log, Event("strip", cur)) ELSE log
    /\ pc' = "resolve"
    /\ UNCHANGED <<hljs, list, idx, pass, dom0, domAt>>

\* lines 15-16 as a mutant: the search for the wrapper starts above the parent.
LangSourceAboveParent(d, n) ==
    LET pre == d[n].parent
        wrapper == IF d[pre].parent = 0 THEN 0
                   ELSE Closest(d, d[pre].parent, MarkerClass)
    IN  IF wrapper # 0 THEN wrapper ELSE pre

\* lines 15-16: wrapper || pre
LangSource(d, n) ==
    LET pre == d[n].parent
        wrapper == Closest(d, pre, MarkerClass)
    IN  IF wrapper # 0 THEN wrapper ELSE pre

\* lines 17-19
LangClass(d, n) == FindLang(d[LangSource(d, n)].classList)

\* lines 17-22 as a mutant: the presence test is folded into the find, which
\* then picks the first language class the block does not have yet.
AddsNextMissing(d, n) ==
    LET src == d[LangSource(d, n)].classList
        missing == SelectSeq(src, LAMBDA t : IsLang(t) /\ ~Contains(d[n].classList, t))
    IN  IF missing # <<>> THEN ClassListAdd(d[n].classList, Head(missing))
        ELSE d[n].classList

\* lines 17-22 as a mutant: every language class of the source is added.
AddsEveryLanguageClass(d, n) ==
    d[n].classList \o
        SelectSeq(d[LangSource(d, n)].classList,
                  LAMBDA t : IsLang(t) /\ ~Contains(d[n].classList, t))

\* lines 20-22 as a mutant: code.className = langClass, which drops the
\* classes the block had.
ReplacesClassName(d, n) ==
    LET src == d[LangSource(d, n)].classList
        found == SelectSeq(src, IsLang)
    IN  IF found # <<>> /\ ~Contains(d[n].classList, Head(found))
        THEN <<Head(found)>> ELSE d[n].classList

\* lines 15-22: the class list of the block after the resolution step.
ResolvedClassList(d, n) ==
    LET langClass == LangClass(d, n)
    IN  IF langClass # Undefined /\ ~Contains(d[n].classList, langClass)
        THEN ClassListAdd(d[n].classList, langClass)
        ELSE d[n].classList

\* lines 13-22: propagate the language class to the code element.
Resolve ==
    /\ pc = "resolve"
    /\ dom' = [dom EXCEPT ![cur].classList = ResolvedClassList(dom, cur)]
    /\ log' = IF dom' # dom THEN Append(log, Event("addClass", cur)) ELSE log
    /\ pc' = "highlight"
    /\ UNCHANGED <<hljs, list, idx, pass, dom0, domAt>>

\* line 24: window.hljs.highlightElement(code) returns. What the library
\* renders is its own business; the call is recorded.
Highlight ==
    /\ pc = "highlight"
    /\ hljs = "library"
    /\ log' = Append(log, Event("highlight", cur))
    /\ idx' = idx + 1
    /\ pc' = After(idx)
    /\ UNCHANGED <<dom, hljs, list, pass, dom0, domAt>>

\* line 24: the call raises; nothing catches it, the forEach and the script
\* end there.
HighlightRaises ==
    /\ pc = "highlight"
    /\ hljs # "library"
    /\ log' = Append(log, Event("raise", cur))
    /\ pc' = "threw"
    /\ UNCHANGED <<dom, hljs, list, idx, pass, dom0, domAt>>

Next ==
    \/ ReturnNoEngine
    \/ Enumerate
    \/ SkipBlock
    \/ Strip
    \/ Resolve
    \/ Highlight
    \/ HighlightRaises

Spec == Init /\ [][Next]_vars

\* ---------------------------------------------------------------- properties
\* The code blocks of the page before the first run.
Blocks0 ==
    {n \in DOMAIN dom0 : /\ dom0[n].tag = "code"
                         /\ \E a \in Ancestors(dom0, n) : dom0[a].tag = "pre"}

\* The nodes of the events op of run p, in the order they happened.
NodesOf(ops, p) ==
    LET sel == SelectSeq(log, LAMBDA e : e.pass = p /\ e.op \in ops)
    IN  [i \in 1..Len(sel) |-> sel[i].node]

\* How many times highlightElement was called on n in run p.
Invocations(n, p) ==
    Cardinality({i \in 1..Len(log) :
        log[i].pass = p /\ log[i].node = n /\ log[i].op \in {"highlight", "raise"}})

\* The run has ended, by returning or by an exception.
Ended == AtRest /\ pass >= 1

\* The language class tokens of a class list.
LangTokens(cl) == {t \in Range(cl) : IsLang(t)}

\* C1: when window.hljs is absent the run ends without an exception and
\* without effect: the document is as it was before the run, and neither a
\* strip, a class addition nor a highlight call has happened.
C1_AbsentEngineIsInert ==
    hljs = "undefined" => (dom = dom0 /\ log = <<>> /\ pc # "threw")

\* C1 witness: a run has returned with no engine on a page where a run with
\* an engine would have stripped a block and given it a class.
C1_Witness ==
    /\ hljs = "undefined"
    /\ pc = "done"
    /\ pass >= 1
    /\ \E n \in Blocks0 :
          /\ HasSpan(dom0, n)
          /\ ResolvedClassList(dom0, n) # dom0[n].classList

\* C2: with the engine present, a run that has returned has called
\* highlightElement exactly once on every code block it enumerated.
C2_OncePerEnumeratedBlock ==
    (pc = "done" /\ pass >= 1 /\ hljs # "undefined") =>
        \A n \in Range(list) : Invocations(n, pass) = 1

\* C3: highlightElement is called on a block only once the block holds no
\* span and carries the language class of its source; no strip or class
\* addition of a block follows its highlight call in the same run; and the
\* calls of a run are made in the document order of the blocks.
C3_HighlightAfterStripAndClass ==
    /\ pc = "highlight" =>
          /\ \A m \in Descendants(dom, cur) : dom[m].tag # "span"
          /\ LET src == IF Closest(dom, dom[cur].parent, MarkerClass) # 0
                        THEN Closest(dom, dom[cur].parent, MarkerClass)
                        ELSE dom[cur].parent
             IN  \A t \in LangTokens(dom[src].classList) :
                    FindLang(dom[src].classList) = t => Contains(dom[cur].classList, t)
    /\ \A i, j \in 1..Len(log) :
          (/\ i < j
           /\ log[i].op \in {"highlight", "raise"}
           /\ log[j].pass = log[i].pass
           /\ log[j].node = log[i].node) => log[j].op \notin {"strip", "addClass"}
    /\ LET order == Preorder(domAt, Body)
           called == NodesOf({"highlight", "raise"}, pass)
           pos(n) == CHOOSE k \in 1..Len(order) : order[k] = n
       IN  \A i, j \in 1..Len(called) : i < j => pos(called[i]) < pos(called[j])

\* C3 witness: two blocks have been highlighted in one run, the later one
\* after being stripped and given a class.
C3_Witness ==
    \E i, j, k, l \in 1..Len(log) :
        /\ i < j /\ j < k /\ k < l
        /\ log[i].op = "highlight"
        /\ log[j].op = "strip" /\ log[k].op = "addClass" /\ log[l].op = "highlight"
        /\ log[j].node = log[l].node /\ log[k].node = log[l].node
        /\ log[i].node # log[l].node
        /\ log[i].pass = log[l].pass

\* C4: stripping keeps the text: a code block with nested elements has,
\* at every point of the run, the text content it had before the run.
C4_StripKeepsText ==
    \A n \in Blocks0 :
        Descendants(dom0, n) # {} => TextContent(dom, n) = TextContent(dom0, n)

\* C4 witness: a block with a span nested in a span, with text before,
\* inside and after, has been stripped.
C4_Witness ==
    \E i \in 1..Len(log) :
        /\ log[i].op = "strip"
        /\ \E m \in ChildElements(dom0, log[i].node) :
              /\ dom0[m].tag = "span"
              /\ \E k \in ChildElements(dom0, m) : dom0[k].tag = "span"
        /\ Len(TextContent(dom0, log[i].node)) >= 4
        /\ Descendants(dom, log[i].node) = {}

\* The stripping step has run on the current block in this run.
Stripped == pc \in {"resolve", "highlight", "threw"}

\* The resolution step has run on the current block in this run.
Resolved == pc \in {"highlight", "threw"}

\* The content a block holds once it is replaced by its own text.
Flattened(d, n) == [i \in 1..Len(TextContent(d, n)) |-> Ch(TextContent(d, n)[i])]

\* C5 as stated: the content is replaced by its flat text exactly when the
\* block has a nested element of any kind; a block with a nested element has
\* none left when highlightElement is called on it, a block without one
\* keeps its content.
C5_StripsAnyNestedElement ==
    Stripped =>
        /\ Descendants(domAt, cur) # {} =>
              /\ Descendants(dom, cur) = {}
              /\ dom[cur].content = Flattened(domAt, cur)
        /\ Descendants(domAt, cur) = {} => dom[cur].content = domAt[cur].content

\* C5 amended: the content of a block the run reaches is replaced by its
\* flat text exactly when the block has a span among its descendants; such
\* a block has no nested element left when highlightElement is called on it,
\* and a block without a span descendant keeps its content, nested elements
\* of other kinds included.
C5_StripsExactlyBlocksWithSpan ==
    Stripped =>
        /\ (\E m \in Descendants(domAt, cur) : domAt[m].tag = "span") =>
              /\ Descendants(dom, cur) = {}
              /\ dom[cur].content = Flattened(domAt, cur)
        /\ (\A m \in Descendants(domAt, cur) : domAt[m].tag # "span") =>
              /\ dom[cur].content = domAt[cur].content
              /\ Descendants(dom, cur) = Descendants(domAt, cur)

\* C5 witness: highlightElement is about to be called on a block that holds
\* an em element and no span, its content as before the run.
C5_Witness ==
    /\ pc = "highlight"
    /\ \E m \in Descendants(dom, cur) : dom[m].tag = "em"
    /\ \A m \in Descendants(domAt, cur) : domAt[m].tag # "span"
    /\ dom[cur].content = domAt[cur].content

\* The reference rule of the language class resolution: the class source is
\* the nearest element with the marker class among the container and its
\* ancestors, or the container when there is none.
RefSource(d, n) ==
    LET c == d[n].parent
        W == {a \in {c} \cup Ancestors(d, c) : MarkerClass \in Range(d[a].classList)}
    IN  IF W = {} THEN c
        ELSE CHOOSE w \in W : \A v \in W : v = w \/ v \in Ancestors(d, w)

\* The first language token of a class list in its order, if any.
RefToken(cl) ==
    LET I == {i \in 1..Len(cl) : IsLang(cl[i])}
    IN  IF I = {} THEN Undefined
        ELSE cl[CHOOSE i \in I : \A j \in I : i <= j]

\* C6: the class tokens the resolution adds to a block are exactly the
\* first language token of the class source given by the reference rule
\* when the block lacks it, and nothing otherwise; nothing else of the class
\* list changes.
C6_ResolutionMatchesReference ==
    Resolved =>
        LET tok == RefToken(dom[RefSource(dom, cur)].classList)
            before == domAt[cur].classList
        IN  dom[cur].classList =
                IF tok # Undefined /\ tok \notin Range(before)
                THEN before \o <<tok>> ELSE before

\* C6 witness: the nearest marked element is the container's parent and has
\* no language token, the container and a farther marked ancestor each have
\* one, and the block, resolved, has no class.
C6_Witness ==
    /\ pc = "highlight"
    /\ LET c == dom[cur].parent
           w == dom[c].parent
       IN  /\ w # 0 /\ dom[w].parent # 0
           /\ RefSource(dom, cur) = w
           /\ LangTokens(dom[w].classList) = {}
           /\ LangTokens(dom[c].classList) # {}
           /\ MarkerClass \in Range(dom[dom[w].parent].classList)
           /\ LangTokens(dom[dom[w].parent].classList) # {}
    /\ dom[cur].classList = <<>>

\* How many times the token occurs in the class list.
Occurrences(cl, tok) == Cardinality({i \in 1..Len(cl) : cl[i] = tok})

\* C7: the resolution is idempotent: run again on a block it has resolved
\* it changes nothing; when the block already carried the resolved token the
\* first run changed nothing either; the resolved token is never there twice.
C7_ResolutionIdempotent ==
    Resolved =>
        /\ ResolvedClassList(dom, cur) = dom[cur].classList
        /\ LangClass(dom, cur) \in Range(domAt[cur].classList) =>
              dom[cur].classList = domAt[cur].classList
        /\ Occurrences(dom[cur].classList, LangClass(dom, cur)) <= 1

\* C7 witness: a block that had language-go before the first run has been
\* resolved against a source that offers language-go.
C7_Witness ==
    /\ pc = "highlight"
    /\ LangClass(dom, cur) = LangGo
    /\ LangGo \in Range(dom0[cur].classList)
    /\ dom[cur].classList = dom0[cur].classList

\* C8 as stated: once resolved, a block carries at most one language token,
\* whatever classes it, its container and its wrapper started with.
C8_AtMostOneLanguageClass ==
    Resolved => Cardinality(LangTokens(dom[cur].classList)) <= 1

\* C8 amended: once resolved, the language tokens of a block are those it
\* had before the first run and the token resolved from its class source;
\* so the block carries at most one when it started with no language token
\* other than the resolved one.
C8_AtMostOneAddedLanguageClass ==
    Resolved =>
        /\ LangTokens(dom[cur].classList) \subseteq
              LangTokens(dom0[cur].classList) \cup {LangClass(dom, cur)}
        /\ LangTokens(dom0[cur].classList) \subseteq {LangClass(dom, cur)} =>
              Cardinality(LangTokens(dom[cur].classList)) <= 1

\* C8 witness: the class source offers two language tokens and the block,
\* which started with none, carries the first one alone in its second run.
C8_Witness ==
    /\ pc = "highlight"
    /\ pass >= 2
    /\ Cardinality(LangTokens(dom[LangSource(dom, cur)].classList)) >= 2
    /\ LangTokens(dom0[cur].classList) = {}
    /\ Cardinality(LangTokens(dom[cur].classList)) = 1

\* C9: no exception leaves the run, and with the engine present a run that
\* has ended has called highlightElement on every block it enumerated.
C9_NoExceptionNoAbort ==
    /\ pc # "threw"
    /\ (Ended /\ hljs # "undefined") =>
          \A n \in Range(list) : Invocations(n, pass) >= 1

\* The page of the end-to-end scenario: a plain block; a block in a wrapper
\* with language-js; a block with a span in a wrapper with language-go.
ScenarioPage == MkDoc(<<PlainFig, JsFig, GoSpanFig>>)

\* C10: after one run on the scenario page with the engine present, block A
\* has no class and one highlight call, block B has language-js and one
\* call, block C holds its flat text, has language-go and one call.
C10_Scenario ==
    (dom0 = ScenarioPage /\ pc = "done" /\ pass = 1 /\ hljs # "undefined") =>
        LET a == SlotNode(1, "code")
            b == SlotNode(2, "code")
            c == SlotNode(3, "code")
        IN  /\ dom[a] = dom0[a] /\ dom[a].classList = <<>>
            /\ Invocations(a, 1) = 1
            /\ dom[b].classList = <<LangJs>> /\ dom[b].content = dom0[b].content
            /\ Invocations(b, 1) = 1
            /\ dom[c].content = <<Ch("a"), Ch("b"), Ch("c")>>
            /\ dom[c].classList = <<LangGo>>
            /\ Invocations(c, 1) = 1
            /\ NodesOf({"highlight", "raise"}, 1) = <<a, b, c>>

\* C10 witness: the run on the scenario page has returned.
C10_Witness ==
    /\ dom0 = ScenarioPage
    /\ pc = "done"
    /\ pass = 1
    /\ hljs = "library"
    /\ Len(log) = 6

\* The elements that are in the document d.
InDocument(d) == Range(Preorder(d, Body))

\* The code blocks of d, their containers, and the marked ancestors of the
\* containers.
BlocksOf(d) ==
    {n \in InDocument(d) : /\ d[n].tag = "code"
                           /\ \E a \in Ancestors(d, n) : d[a].tag = "pre"}

ContainersOf(d) == {d[n].parent : n \in BlocksOf(d)}

WrappersOf(d) ==
    {w \in InDocument(d) :
        /\ MarkerClass \in Range(d[w].classList)
        /\ \E c \in ContainersOf(d) : w \in Ancestors(d, c)}

\* C11: the run neither removes nor adds elements: every code block,
\* container and wrapper that was in the document before the first run is
\* in the document, and every element in the document was in it before.
C11_NoElementRemovedOrAdded ==
    /\ (BlocksOf(dom0) \cup ContainersOf(dom0) \cup WrappersOf(dom0))
           \subseteq InDocument(dom)
    /\ InDocument(dom) \subseteq InDocument(dom0)

\* Calls of highlightElement on n over all runs so far.
TotalInvocations(n) ==
    Cardinality({i \in 1..Len(log) :
        log[i].node = n /\ log[i].op \in {"highlight", "raise"}})

\* C12: a second run on the page adds no class token to any block (the
\* class lists are those the first run left) and calls highlightElement a
\* second time on every block, so that each block has been highlighted
\* exactly twice when the second run has returned.
C12_SecondRunRepeatsHighlight ==
    (pass = 2 /\ pc = "done" /\ hljs # "undefined") =>
        /\ \A n \in DOMAIN dom : dom[n].classList = domAt[n].classList
        /\ \A n \in BlocksOf(dom0) :
              /\ Invocations(n, 2) = 1
              /\ TotalInvocations(n) = 2

\* s is t or t followed by one more token.
GrowsByAtMostOne(s, t) ==
    /\ Len(s) \in {Len(t), Len(t) + 1}
    /\ SubSeq(s, 1, Len(t)) = t
    /\ Len(s) = Len(t) + 1 => s[Len(s)] \notin Range(t)

\* C13 as stated: containers, wrappers and all elements that are not code
\* blocks keep their class tokens through a run, and every code block keeps
\* its class tokens and gains at most one.
C13_FrameContainersUnchanged ==
    /\ \A n \in DOMAIN dom :
          (n \notin Range(list) \/ n \in ContainersOf(domAt) \cup WrappersOf(domAt)) =>
              dom[n].classList = domAt[n].classList
    /\ \A n \in Range(list) : GrowsByAtMostOne(dom[n].classList, domAt[n].classList)

\* C13 amended: a run changes the content and the class tokens of no element
\* other than the code blocks it enumerated, a container or wrapper that is
\* itself an enumerated code block excepted from the unchanged ones; no
\* class token is removed from any element, and every code block keeps its
\* class tokens, in their order, and gains at most one, over one run and
\* over all runs.
C13_FrameOnlyEnumeratedBlocks ==
    /\ \A n \in DOMAIN dom :
          n \notin Range(list) =>
              /\ dom[n].classList = domAt[n].classList
              /\ dom[n].content = domAt[n].content
    /\ \A n \in Range(list) : GrowsByAtMostOne(dom[n].classList, domAt[n].classList)
    /\ \A n \in DOMAIN dom : GrowsByAtMostOne(dom[n].classList, dom0[n].classList)
    /\ \A n \in DOMAIN dom :
          dom0[n].tag # "code" =>
              /\ dom[n].classList = dom0[n].classList
              /\ dom[n].content = dom0[n].content

\* C13 witness: a run has returned on a page where a code block that is the
\* container of another code block has gained a class, the inner block too,
\* and the wrapper that offered the class is as it was.
C13_Witness ==
    /\ pc = "done"
    /\ pass >= 1
    /\ \E i, o \in Range(list) :
          /\ dom[i].parent = o
          /\ Len(dom[o].classList) = Len(dom0[o].classList) + 1
          /\ Len(dom[i].classList) = Len(dom0[i].classList) + 1
          /\ \E w \in WrappersOf(dom0) :
                /\ dom0[w].tag = "div"
                /\ LangTokens(dom[w].classList) # {}
                /\ dom[w] = dom0[w]

====
